---- MODULE Spec2Model ----
(***************************************************************************)
(* Model of the wallet subcommand of ckb-cli                               *)
(* (src/src/subcommands/wallet/mod.rs): the transfer pipeline with its     *)
(* funding terminator, from the matching of the command line on; the       *)
(* terminators of get_live_cells and get_capacity; and the signing         *)
(* function built by get_keystore_signer.                                  *)
(*                                                                         *)
(* Capacities are u64 shannons.  The u64 range is scaled down to           *)
(* U64_MODULUS; every u64 addition and subtraction of the code goes        *)
(* through AddU64 / SubU64, and an overflowing one either panics (overflow *)
(* checks compiled in) or wraps.                                           *)
(***************************************************************************)
EXTENDS Integers, Sequences, FiniteSets, TLC

VARIABLES
    pc,                 \* stage of transfer / of the other operations
    args,               \* TransferArgs, as parsed
    min_cell_capacity,  \* value of MIN_SECP_CELL_CAPACITY
    overflow_checks,    \* "unset" until an overflow happens, then "on" | "off"
    lock_hashes,        \* the lock hashes for search live cells, in order
    path_map,           \* derived lock arg -> derivation path
    multisig_configs,   \* helper.multisig_configs()
    change_lock,        \* change_address_payload
    max_mature_number,
    from_capacity,      \* funding terminator: accumulated capacity
    infos,              \* funding terminator: collected records
    lock_i,             \* position in lock_hashes of the stream being scanned
    scanned,            \* per lock hash: the records its stream has yielded
    stopped,            \* per lock hash: the terminator returned stop
    rest_capacity,
    inputs,             \* helper inputs
    outputs,            \* helper outputs
    error,              \* the Err(..) returned, "" while there is none
    rpc_calls,          \* calls made to the RPC client
    keystore_calls,     \* calls made to the key store
    broadcasts,         \* send_transaction calls
    \* get_live_cells
    to_number,
    limit,
    fast_mode,
    stream,             \* the records func's stream has yielded
    live_infos,         \* the records the index pushed (push_info)
    halted,             \* the terminator returned stop
    total_count,
    total_capacity,
    current_count,
    current_capacity,
    total,              \* the Option<(u32, u64)> returned
    \* the closure built by get_keystore_signer
    account,
    lock_args,          \* the candidate set of the last call
    message,            \* the digest of the last call
    signed,             \* what the last call returned
    \* get_capacity
    dao_capacity,
    immature_capacity

transferVars ==
    <<pc, args, min_cell_capacity, overflow_checks, lock_hashes, path_map,
      multisig_configs, change_lock, max_mature_number, from_capacity, infos,
      lock_i, scanned, stopped, rest_capacity, inputs, outputs, error,
      rpc_calls, keystore_calls, broadcasts>>

listerVars ==
    <<to_number, limit, fast_mode, stream, live_infos, halted, total_count,
      total_capacity, current_count, current_capacity, total>>

signerVars == <<account, lock_args, message, signed>>

\* get_capacity's own counters; it shares lock_hashes, lock_i, scanned,
\* max_mature_number and total_capacity with the operations above
capacityVars == <<dao_capacity, immature_capacity>>

vars == <<transferVars, listerVars, signerVars, capacityVars>>

-----------------------------------------------------------------------------
(* Bounds and constants *)

\* stand-in for 2^64, the modulus of u64 arithmetic
U64_MODULUS == 1073741824

\* ckb_sdk::constants::ONE_CKB, in shannons
ONE_CKB == 100000000

\* records one run of transfer reads from the index, over all lock hashes
MaxCells == 3

\* values of ckb_sdk::constants::MIN_SECP_CELL_CAPACITY the model covers
FloorChoices == {61, 491}

U64Max == U64_MODULUS - 1

Overflows(a, b) == a + b >= U64_MODULUS

AddU64(a, b) == (a + b) % U64_MODULUS

SubU64(a, b) == (a - b) % U64_MODULUS

\* the build an overflow runs into: decided by the first overflow of a run
Builds(overflowing) ==
    IF overflowing /\ overflow_checks = "unset" THEN {"on", "off"}
    ELSE {overflow_checks}

RECURSIVE SumCapacity(_)
SumCapacity(s) ==
    IF s = <<>> THEN 0 ELSE s[1].capacity + SumCapacity(Tail(s))

RECURSIVE Flatten(_)
Flatten(ss) ==
    IF ss = <<>> THEN <<>> ELSE ss[1] \o Flatten(Tail(ss))

-----------------------------------------------------------------------------
(* LiveCellInfo records of the index *)

Cell(cap, data, type, num, txi) ==
    [capacity |-> cap, data_bytes |-> data, type_hashes |-> type,
     number |-> num, tx_index |-> txi]

\* the records a stream may yield
CellKinds ==
    { Cell(600, 0, "none", 1, 1),
      Cell(500, 0, "none", 2, 1),
      Cell(10000, 0, "none", 3, 1),
      Cell(ONE_CKB, 0, "none", 2, 2),
      Cell(600, 4, "none", 1, 1),
      Cell(10000, 0, "dao", 2, 1),
      Cell(10000, 0, "none", 3, 0) }

\* a stream is ordered by block number
NextCells(yielded) ==
    { c \in CellKinds : yielded = <<>> \/ yielded[Len(yielded)].number <= c.number }

is_mature(info, max_mature) ==
    info.tx_index > 0 \/ info.number = 0 \/ info.number <= max_mature

-----------------------------------------------------------------------------
(* TransferArgs and the checks of transfer before any search *)

SIGHASH_TYPE_HASH == "sighash"

MULTISIG_TYPE_HASH == "multisig"

ToAddress(hash_type, code_hash, args_len) ==
    [hash_type |-> hash_type, code_hash |-> code_hash, args_len |-> args_len]

\* --from-locked-address: payload length, top byte of the since value
\* (args[27], the flags), and the key whose multisig hash is args[0..20]
LockedAddress(present, args_len, flags, key) ==
    [present |-> present, args_len |-> args_len, since_flags |-> flags, key |-> key]

NoLockedAddress == LockedAddress(FALSE, 0, 0, "primary")

\* Since::flags_is_valid: no reserved flag bit, metric bits not 11
flags_is_valid(flags) == flags % 32 = 0 /\ (flags \div 32) % 4 # 3

\* Since::is_absolute: the relative bit is clear
is_absolute(flags) == flags \div 128 = 0

\* Since::extract_metric, the metric's type
extract_metric(flags) ==
    CASE (flags \div 32) % 4 = 0 -> "BlockNumber"
      [] (flags \div 32) % 4 = 1 -> "EpochNumberWithFraction"
      [] (flags \div 32) % 4 = 2 -> "Timestamp"
      [] OTHER -> "None"

\* the checks of the locked address without the one of is_absolute
LockedAddressError_NoAbsoluteCheck(locked) ==
    IF ~locked.present THEN ""
    ELSE IF locked.args_len # 28 THEN "Invalid from-locked-address's args: invalid length"
    ELSE IF ~flags_is_valid(locked.since_flags)
        THEN "Invalid from-locked-address's args: invalid since flags"
    ELSE IF extract_metric(locked.since_flags) # "EpochNumberWithFraction"
        THEN "Invalid from-locked-address's args: only support epoch since value"
    ELSE ""

\* lines 233-252
LockedAddressError(locked) ==
    IF ~locked.present THEN ""
    ELSE IF locked.args_len # 28 THEN "Invalid from-locked-address's args: invalid length"
    ELSE IF ~flags_is_valid(locked.since_flags)
        THEN "Invalid from-locked-address's args: invalid since flags"
    ELSE IF ~is_absolute(locked.since_flags)
        THEN "Invalid from-locked-address's args: only support absolute since value"
    ELSE IF extract_metric(locked.since_flags) # "EpochNumberWithFraction"
        THEN "Invalid from-locked-address's args: only support epoch since value"
    ELSE ""

\* the test of the destination without the lengths of the arguments
ToAddressAccepted_AnyLength(to) ==
    \/ (to.hash_type = "Type" /\ to.code_hash = SIGHASH_TYPE_HASH)
    \/ (to.hash_type = "Type" /\ to.code_hash = MULTISIG_TYPE_HASH)

\* lines 254-265
ToAddressAccepted(to) ==
    \/ (to.hash_type = "Type" /\ to.code_hash = SIGHASH_TYPE_HASH /\ to.args_len = 20)
    \/ (to.hash_type = "Type" /\ to.code_hash = MULTISIG_TYPE_HASH
            /\ (to.args_len = 20 \/ to.args_len = 28))

\* utils::other::check_capacity
check_capacity(capacity, to_data_len, floor) ==
    capacity >= floor /\ capacity >= floor + to_data_len * ONE_CKB

\* malformed: the first field, in the order of lines 174-212, that its parser
\* rejects ("" when each field parses)
TransferArgs(privkey, acct, locked, change, capacity, fee, to, data_len, malformed) ==
    [privkey_path |-> privkey, from_account |-> acct,
     from_locked_address |-> locked, derive_change_address |-> change,
     capacity |-> capacity, tx_fee |-> fee, to_address |-> to,
     to_data_len |-> data_len, malformed |-> malformed]

\* the fields transfer parses, lines 174-212
ParsedFields ==
    {"privkey-path", "from-account", "from-locked-address", "capacity", "tx-fee",
     "derive-receiving-address-length", "derive-change-address", "to-address"}

\* a field the request does not give is not parsed
Given(a, field) ==
    CASE field = "privkey-path" -> a.privkey_path
      [] field = "from-account" -> a.from_account
      [] field = "from-locked-address" -> a.from_locked_address.present
      [] field = "derive-change-address" -> a.derive_change_address
      [] OTHER -> TRUE

\* lines 174-212: the Err of the first parser that fails, "" when none does
ParseError(a) ==
    IF a.malformed \in ParsedFields /\ Given(a, a.malformed) THEN a.malformed ELSE ""

\* the transfer subcommand's argument rules without conflicts_with on
\* from-account
ClapError_NoConflict(a) ==
    IF ~a.privkey_path /\ ~a.from_account
        THEN "The following required arguments were not provided"
    ELSE IF a.derive_change_address /\ a.privkey_path
        THEN "The argument cannot be used with one or more of the other specified arguments"
    ELSE ""

\* lines 106-121: required_unless and conflicts_with on the transfer
\* subcommand's arguments; "" when the command line is accepted
ClapError(a) ==
    IF ~a.privkey_path /\ ~a.from_account
        THEN "The following required arguments were not provided"
    ELSE IF a.privkey_path /\ (a.from_account \/ a.derive_change_address)
        THEN "The argument cannot be used with one or more of the other specified arguments"
    ELSE ""

\* the checks of lines 233-266 without check_capacity
ValidationError_NoFloorCheck(a, floor) ==
    IF LockedAddressError(a.from_locked_address) # ""
        THEN LockedAddressError(a.from_locked_address)
    ELSE IF ~ToAddressAccepted(a.to_address) THEN "Invalid to-address"
    ELSE ""

\* lines 233-266: "" when every check passes, else the message of the first
\* one that fails
ValidationError(a, floor) ==
    IF LockedAddressError(a.from_locked_address) # ""
        THEN LockedAddressError(a.from_locked_address)
    ELSE IF ~ToAddressAccepted(a.to_address) THEN "Invalid to-address"
    ELSE IF ~check_capacity(a.capacity, a.to_data_len, floor)
        THEN "Capacity can not be less than the minimal cell capacity"
    ELSE ""

Fail(msg) == pc' = "Failed" /\ error' = msg

\* lines 106-121 and 526-546: the command line is matched against the
\* subcommand's arguments, and transfer is called when it is accepted
MatchCommandLine ==
    /\ pc = "Matching"
    /\ IF ClapError(args) # "" THEN Fail(ClapError(args))
       ELSE pc' = "Validating" /\ error' = error
    /\ UNCHANGED <<listerVars, signerVars, capacityVars>>
    /\ UNCHANGED <<args, min_cell_capacity, overflow_checks, lock_hashes, path_map,
                   multisig_configs, change_lock, max_mature_number, from_capacity,
                   infos, lock_i, scanned, stopped, rest_capacity, inputs, outputs,
                   rpc_calls, keystore_calls, broadcasts>>

\* lines 173-266
Validate ==
    /\ pc = "Validating"
    /\ rpc_calls' = rpc_calls + 1
    /\ \E network_ok \in BOOLEAN :
        IF ~network_ok THEN Fail("get_network_type: rpc error")
        ELSE IF ParseError(args) # "" THEN Fail(ParseError(args))
        ELSE IF ~args.privkey_path /\ ~args.from_account
            THEN pc' = "Panicked" /\ error' = "from_account.unwrap() on None"
        ELSE IF ValidationError(args, min_cell_capacity) # ""
            THEN Fail(ValidationError(args, min_cell_capacity))
        ELSE pc' = "ResolvingIdentities" /\ error' = error
    /\ UNCHANGED <<listerVars, signerVars, capacityVars>>
    /\ UNCHANGED <<args, min_cell_capacity, overflow_checks, lock_hashes, path_map,
                   multisig_configs, change_lock, max_mature_number, from_capacity,
                   infos, lock_i, scanned, stopped, rest_capacity, inputs, outputs,
                   keystore_calls, broadcasts>>

-----------------------------------------------------------------------------
(* Lines 268-327: the lock hashes to search *)

\* key_set.external.iter().chain(key_set.change.iter()): (lock arg, path)
DerivedPathMap == [k \in {"chg0"} |-> "m/44'/309'/0'/1/0"]

EmptyPathMap == [k \in {} |-> ""]

DerivedLockHashes == <<"chg0">>

\* the primary key alone tried for the locked address
MultisigCandidates_PrimaryOnly(pm) == {"primary"}

\* the keys tried for the locked address: the primary first
MultisigCandidates(pm) == {"primary"} \cup DOMAIN pm

\* the lock hash of the locked address pushed after the others
ResolveIdentities_LockedLast ==
    /\ pc = "ResolvingIdentities"
    /\ rpc_calls' = rpc_calls + 1
    /\ keystore_calls' = keystore_calls + (IF args.derive_change_address THEN 1 ELSE 0)
    /\ \E index_ok \in BOOLEAN, derive_ok \in BOOLEAN :
        LET pm == IF args.derive_change_address THEN DerivedPathMap ELSE EmptyPathMap
            own == <<"primary">> \o
                   (IF args.derive_change_address THEN DerivedLockHashes ELSE <<>>)
            locked == args.from_locked_address
            all == IF locked.present THEN own \o <<"locked">> ELSE own
            cfgs == IF locked.present /\ locked.key \in MultisigCandidates(pm)
                    THEN {locked.key} ELSE {}
        IN  IF ~index_ok
                THEN /\ Fail("Index database may not ready")
                     /\ UNCHANGED <<lock_hashes, path_map, multisig_configs, change_lock,
                                    scanned, stopped>>
            ELSE IF args.derive_change_address /\ ~derive_ok
                THEN /\ Fail("derived_key_set_with_password failed")
                     /\ UNCHANGED <<lock_hashes, path_map, multisig_configs, change_lock,
                                    scanned, stopped>>
            ELSE /\ lock_hashes' = all
                 /\ path_map' = pm
                 /\ multisig_configs' = cfgs
                 /\ change_lock' = IF args.derive_change_address THEN "chg0" ELSE "primary"
                 /\ scanned' = [i \in 1..Len(all) |-> <<>>]
                 /\ stopped' = [i \in 1..Len(all) |-> FALSE]
                 /\ IF locked.present /\ cfgs = {}
                      THEN Fail("from-locked-address is not created from the key or derived keys")
                      ELSE pc' = "SearchingFunds" /\ error' = error
    /\ UNCHANGED <<listerVars, signerVars, capacityVars>>
    /\ UNCHANGED <<args, min_cell_capacity, overflow_checks, max_mature_number,
                   from_capacity, infos, lock_i, rest_capacity, inputs, outputs,
                   broadcasts>>

\* lines 268-327
ResolveIdentities ==
    /\ pc = "ResolvingIdentities"
    /\ rpc_calls' = rpc_calls + 1
    /\ keystore_calls' = keystore_calls + (IF args.derive_change_address THEN 1 ELSE 0)
    /\ \E index_ok \in BOOLEAN, derive_ok \in BOOLEAN :
        LET pm == IF args.derive_change_address THEN DerivedPathMap ELSE EmptyPathMap
            own == <<"primary">> \o
                   (IF args.derive_change_address THEN DerivedLockHashes ELSE <<>>)
            locked == args.from_locked_address
            all == IF locked.present THEN <<"locked">> \o own ELSE own
            cfgs == IF locked.present /\ locked.key \in MultisigCandidates(pm)
                    THEN {locked.key} ELSE {}
        IN  IF ~index_ok
                THEN /\ Fail("Index database may not ready")
                     /\ UNCHANGED <<lock_hashes, path_map, multisig_configs, change_lock,
                                    scanned, stopped>>
            ELSE IF args.derive_change_address /\ ~derive_ok
                THEN /\ Fail("derived_key_set_with_password failed")
                     /\ UNCHANGED <<lock_hashes, path_map, multisig_configs, change_lock,
                                    scanned, stopped>>
            ELSE /\ lock_hashes' = all
                 /\ path_map' = pm
                 /\ multisig_configs' = cfgs
                 /\ change_lock' = IF args.derive_change_address THEN "chg0" ELSE "primary"
                 /\ scanned' = [i \in 1..Len(all) |-> <<>>]
                 /\ stopped' = [i \in 1..Len(all) |-> FALSE]
                 /\ IF locked.present /\ cfgs = {}
                      THEN Fail("from-locked-address is not created from the key or derived keys")
                      ELSE pc' = "SearchingFunds" /\ error' = error
    /\ UNCHANGED <<listerVars, signerVars, capacityVars>>
    /\ UNCHANGED <<args, min_cell_capacity, overflow_checks, max_mature_number,
                   from_capacity, infos, lock_i, rest_capacity, inputs, outputs,
                   broadcasts>>

-----------------------------------------------------------------------------
(* Lines 329-360: the funding terminator and the search over lock_hashes *)

\* values get_max_mature_number may return
MatureNumbers == {2, 3}

\* IsPlain without its test of the attached data
IsPlain_IgnoringData(info) == info.type_hashes = "none"

\* info.type_hashes.is_none() && info.data_bytes == 0
IsPlain(info) == info.type_hashes = "none" /\ info.data_bytes = 0

\* to_capacity + tx_fee, as the u64 sum the code computes
Target(a) == AddU64(a.capacity, a.tx_fee)

\* the terminator without its first branch: once the target is reached it
\* stops the current stream only
terminator_Unguarded(a, acc, max_mature, info) ==
    IF IsPlain(info) /\ is_mature(info, max_mature)
        THEN [stop |-> AddU64(acc, info.capacity) >= Target(a), push_info |-> FALSE,
              from_capacity |-> AddU64(acc, info.capacity), pushed |-> TRUE,
              overflow |-> Overflows(a.capacity, a.tx_fee)
                            \/ Overflows(acc, info.capacity)]
    ELSE [stop |-> FALSE, push_info |-> FALSE, from_capacity |-> acc,
          pushed |-> FALSE, overflow |-> Overflows(a.capacity, a.tx_fee)]

\* the terminator that, once the target is reached, collects nothing but lets
\* the scan go on
terminator_SkipsOnceReached(a, acc, max_mature, info) ==
    IF acc >= Target(a)
        THEN [stop |-> FALSE, push_info |-> FALSE, from_capacity |-> acc,
              pushed |-> FALSE, overflow |-> Overflows(a.capacity, a.tx_fee)]
    ELSE IF IsPlain(info) /\ is_mature(info, max_mature)
        THEN [stop |-> AddU64(acc, info.capacity) >= Target(a), push_info |-> FALSE,
              from_capacity |-> AddU64(acc, info.capacity), pushed |-> TRUE,
              overflow |-> Overflows(a.capacity, a.tx_fee)
                            \/ Overflows(acc, info.capacity)]
    ELSE [stop |-> FALSE, push_info |-> FALSE, from_capacity |-> acc,
          pushed |-> FALSE, overflow |-> Overflows(a.capacity, a.tx_fee)]

\* the terminator never returning stop
terminator_NeverStops(a, acc, max_mature, info) ==
    IF acc >= Target(a)
        THEN [stop |-> FALSE, push_info |-> FALSE, from_capacity |-> acc,
              pushed |-> FALSE, overflow |-> Overflows(a.capacity, a.tx_fee)]
    ELSE IF IsPlain(info) /\ is_mature(info, max_mature)
        THEN [stop |-> FALSE, push_info |-> FALSE,
              from_capacity |-> AddU64(acc, info.capacity), pushed |-> TRUE,
              overflow |-> Overflows(a.capacity, a.tx_fee)
                            \/ Overflows(acc, info.capacity)]
    ELSE [stop |-> FALSE, push_info |-> FALSE, from_capacity |-> acc,
          pushed |-> FALSE, overflow |-> Overflows(a.capacity, a.tx_fee)]

\* lines 332-345: the terminator called with the accumulated capacity `acc`
\* on record `info`: what it returns, the capacity it leaves accumulated,
\* whether it pushed info, and whether one of its additions overflowed
terminator(a, acc, max_mature, info) ==
    IF acc >= Target(a)
        THEN [stop |-> TRUE, push_info |-> FALSE, from_capacity |-> acc,
              pushed |-> FALSE, overflow |-> Overflows(a.capacity, a.tx_fee)]
    ELSE IF IsPlain(info) /\ is_mature(info, max_mature)
        THEN [stop |-> AddU64(acc, info.capacity) >= Target(a), push_info |-> FALSE,
              from_capacity |-> AddU64(acc, info.capacity), pushed |-> TRUE,
              overflow |-> Overflows(a.capacity, a.tx_fee)
                            \/ Overflows(acc, info.capacity)]
    ELSE [stop |-> FALSE, push_info |-> FALSE, from_capacity |-> acc,
          pushed |-> FALSE, overflow |-> Overflows(a.capacity, a.tx_fee)]

TotalScanned == Len(Flatten(scanned))

\* where the search goes once the stream of lock_i is over
AfterStream ==
    /\ lock_i' = lock_i + 1
    /\ pc' = IF lock_i = Len(lock_hashes) THEN "Balancing" ELSE pc

\* line 329 and the opening of the index database (lines 346-347)
StartSearch ==
    /\ pc = "SearchingFunds"
    /\ lock_i = 0
    /\ rpc_calls' = rpc_calls + 1
    /\ \E outcome \in {"ok", "rpc error", "index error"}, m \in MatureNumbers :
        IF outcome = "ok"
            THEN /\ max_mature_number' = m
                 /\ lock_i' = 1
                 /\ UNCHANGED <<pc, error>>
        ELSE /\ Fail(IF outcome = "rpc error" THEN "get_max_mature_number: rpc error"
                     ELSE "Index database may not ready")
             /\ UNCHANGED <<max_mature_number, lock_i>>
    /\ UNCHANGED <<listerVars, signerVars, capacityVars>>
    /\ UNCHANGED <<args, min_cell_capacity, overflow_checks, lock_hashes, path_map,
                   multisig_configs, change_lock, from_capacity, infos, scanned,
                   stopped, rest_capacity, inputs, outputs, keystore_calls, broadcasts>>

\* get_live_cells_by_lock yields the next record of the stream of
\* lock_hashes[lock_i] and calls the terminator on it
TerminatorCall ==
    /\ pc = "SearchingFunds"
    /\ lock_i \in 1..Len(lock_hashes)
    /\ TotalScanned < MaxCells
    /\ \E info \in NextCells(scanned[lock_i]) :
        LET r == terminator(args, from_capacity, max_mature_number, info)
        IN  \E build \in Builds(r.overflow) :
              /\ overflow_checks' = build
              /\ scanned' = [scanned EXCEPT ![lock_i] = Append(@, info)]
              /\ IF r.overflow /\ build = "on"
                   THEN /\ pc' = "Panicked"
                        /\ error' = "attempt to add with overflow"
                        /\ UNCHANGED <<from_capacity, infos, stopped, lock_i>>
                   ELSE /\ from_capacity' = r.from_capacity
                        /\ infos' = IF r.pushed THEN Append(infos, info) ELSE infos
                        /\ stopped' = [stopped EXCEPT ![lock_i] = r.stop]
                        /\ error' = error
                        /\ IF r.stop THEN AfterStream ELSE UNCHANGED <<pc, lock_i>>
    /\ UNCHANGED <<listerVars, signerVars, capacityVars>>
    /\ UNCHANGED <<args, min_cell_capacity, lock_hashes, path_map, multisig_configs,
                   change_lock, max_mature_number, rest_capacity, inputs, outputs,
                   rpc_calls, keystore_calls, broadcasts>>

\* the stream of lock_hashes[lock_i] has no further record
StreamEnd ==
    /\ pc = "SearchingFunds"
    /\ lock_i \in 1..Len(lock_hashes)
    /\ AfterStream
    /\ UNCHANGED <<listerVars, signerVars, capacityVars>>
    /\ UNCHANGED <<args, min_cell_capacity, overflow_checks, lock_hashes, path_map,
                   multisig_configs, change_lock, max_mature_number, from_capacity,
                   infos, scanned, stopped, rest_capacity, inputs, outputs, error,
                   rpc_calls, keystore_calls, broadcasts>>

-----------------------------------------------------------------------------
(* Lines 362-375: balancing *)

FeeTooHigh == "Transaction fee can not be more than 1.0 CKB"

NotEnough == "Capacity(mature) not enough"

FeeTooHighAdjust ==
    "Transaction fee can not be more than 1.0 CKB, please change to-capacity value to adjust"

\* Balancing without the check of line 373
Balancing_NoRestCheck(a, acc, floor) ==
    IF a.tx_fee > ONE_CKB
        THEN [error |-> FeeTooHigh, rest_capacity |-> 0, overflow |-> FALSE]
    ELSE IF Target(a) > acc
        THEN [error |-> NotEnough,
              rest_capacity |-> 0, overflow |-> Overflows(a.capacity, a.tx_fee)]
    ELSE [error |-> "", rest_capacity |-> SubU64(SubU64(acc, a.capacity), a.tx_fee),
          overflow |-> Overflows(a.capacity, a.tx_fee)]

\* lines 362-375 on the searched capacity `acc`: the error returned ("" for
\* none), the rest capacity, and whether to_capacity + tx_fee overflowed
Balancing(a, acc, floor) ==
    IF a.tx_fee > ONE_CKB
        THEN [error |-> FeeTooHigh, rest_capacity |-> 0, overflow |-> FALSE]
    ELSE IF Target(a) > acc
        THEN [error |-> NotEnough,
              rest_capacity |-> 0, overflow |-> Overflows(a.capacity, a.tx_fee)]
    ELSE IF SubU64(SubU64(acc, a.capacity), a.tx_fee) < floor
            /\ a.tx_fee + SubU64(SubU64(acc, a.capacity), a.tx_fee) > ONE_CKB
        THEN [error |-> FeeTooHighAdjust,
              rest_capacity |-> SubU64(SubU64(acc, a.capacity), a.tx_fee),
              overflow |-> Overflows(a.capacity, a.tx_fee)]
    ELSE [error |-> "", rest_capacity |-> SubU64(SubU64(acc, a.capacity), a.tx_fee),
          overflow |-> Overflows(a.capacity, a.tx_fee)]

Balance ==
    /\ pc = "Balancing"
    /\ LET r == Balancing(args, from_capacity, min_cell_capacity)
       IN  \E build \in Builds(r.overflow) :
             /\ overflow_checks' = build
             /\ IF r.overflow /\ build = "on"
                  THEN /\ pc' = "Panicked"
                       /\ error' = "attempt to add with overflow"
                       /\ UNCHANGED rest_capacity
                ELSE IF r.error # ""
                  THEN Fail(r.error) /\ UNCHANGED rest_capacity
                ELSE /\ pc' = "Assembling"
                     /\ rest_capacity' = r.rest_capacity
                     /\ error' = error
    /\ UNCHANGED <<listerVars, signerVars, capacityVars>>
    /\ UNCHANGED <<args, min_cell_capacity, lock_hashes, path_map, multisig_configs,
                   change_lock, max_mature_number, from_capacity, infos, lock_i,
                   scanned, stopped, inputs, outputs, rpc_calls, keystore_calls,
                   broadcasts>>

-----------------------------------------------------------------------------
(* Lines 377-423: assembling, signing, broadcasting *)

Output(capacity, lock, data_len) ==
    [capacity |-> capacity, lock |-> lock, data_len |-> data_len]

\* BuildOutputs without the change output
BuildOutputs_NoChange(a, rest, floor, change) ==
    <<Output(a.capacity, "to_address", a.to_data_len)>>

\* lines 393-404: the outputs added to the helper
BuildOutputs(a, rest, floor, change) ==
    <<Output(a.capacity, "to_address", a.to_data_len)>> \o
    (IF rest >= floor THEN <<Output(rest, change, 0)>> ELSE <<>>)

\* lines 377-404
Assemble ==
    /\ pc = "Assembling"
    /\ rpc_calls' = rpc_calls + (IF infos = <<>> THEN 0 ELSE 1)
    /\ \E input_ok \in BOOLEAN :
        IF infos # <<>> /\ ~input_ok
            THEN Fail("add_input: get_live_cell failed") /\ UNCHANGED <<inputs, outputs>>
        ELSE /\ inputs' = infos
             /\ outputs' = BuildOutputs(args, rest_capacity, min_cell_capacity, change_lock)
             /\ pc' = "SigningInputs"
             /\ error' = error
    /\ UNCHANGED <<listerVars, signerVars, capacityVars>>
    /\ UNCHANGED <<args, min_cell_capacity, overflow_checks, lock_hashes, path_map,
                   multisig_configs, change_lock, max_mature_number, from_capacity,
                   infos, lock_i, scanned, stopped, rest_capacity, keystore_calls,
                   broadcasts>>

\* lines 406-415
SignInputs ==
    /\ pc = "SigningInputs"
    /\ keystore_calls' =
         keystore_calls + (IF ~args.privkey_path /\ inputs # <<>> THEN 1 ELSE 0)
    /\ \E sign_ok \in BOOLEAN :
        IF sign_ok THEN pc' = "Finalizing" /\ error' = error
        ELSE Fail("sign_inputs failed")
    /\ UNCHANGED <<listerVars, signerVars, capacityVars>>
    /\ UNCHANGED <<args, min_cell_capacity, overflow_checks, lock_hashes, path_map,
                   multisig_configs, change_lock, max_mature_number, from_capacity,
                   infos, lock_i, scanned, stopped, rest_capacity, inputs, outputs,
                   rpc_calls, broadcasts>>

\* the broadcast sent a second time when send_transaction fails
Broadcast_Retrying ==
    /\ pc = "Finalizing"
    /\ broadcasts < 2
    /\ \E outcome \in {"build error", "send error", "same hash", "other hash"} :
        /\ broadcasts' = broadcasts + (IF outcome = "build error" THEN 0 ELSE 1)
        /\ rpc_calls' = rpc_calls + (IF outcome = "build error" THEN 0 ELSE 1)
        /\ CASE outcome = "build error" -> Fail("build_tx failed")
             [] outcome = "send error" ->
                    IF broadcasts = 0 THEN UNCHANGED <<pc, error>>
                    ELSE Fail("Send transaction error")
             [] outcome = "same hash" -> pc' = "Submitted" /\ error' = error
             [] outcome = "other hash" ->
                    pc' = "Panicked" /\ error' = "assertion failed: tx.hash() == tx_hash"
    /\ UNCHANGED <<listerVars, signerVars, capacityVars>>
    /\ UNCHANGED <<args, min_cell_capacity, overflow_checks, lock_hashes, path_map,
                   multisig_configs, change_lock, max_mature_number, from_capacity,
                   infos, lock_i, scanned, stopped, rest_capacity, inputs, outputs,
                   keystore_calls>>

\* lines 416-422
Broadcast ==
    /\ pc = "Finalizing"
    /\ \E outcome \in {"build error", "send error", "same hash", "other hash"} :
        /\ broadcasts' = broadcasts + (IF outcome = "build error" THEN 0 ELSE 1)
        /\ rpc_calls' = rpc_calls + (IF outcome = "build error" THEN 0 ELSE 1)
        /\ CASE outcome = "build error" -> Fail("build_tx failed")
             [] outcome = "send error" -> Fail("Send transaction error")
             [] outcome = "same hash" -> pc' = "Submitted" /\ error' = error
             [] outcome = "other hash" ->
                    pc' = "Panicked" /\ error' = "assertion failed: tx.hash() == tx_hash"
    /\ UNCHANGED <<listerVars, signerVars, capacityVars>>
    /\ UNCHANGED <<args, min_cell_capacity, overflow_checks, lock_hashes, path_map,
                   multisig_configs, change_lock, max_mature_number, from_capacity,
                   infos, lock_i, scanned, stopped, rest_capacity, inputs, outputs,
                   keystore_calls>>

-----------------------------------------------------------------------------
(* The requests the model runs transfer on *)

SighashAddress == ToAddress("Type", SIGHASH_TYPE_HASH, 20)

\* absolute epoch since, embedding the multisig hash of the primary key
LockedOnPrimary == LockedAddress(TRUE, 28, 32, "primary")

Payments == {100, 1000, U64Max - 9}

Fees == {10, ONE_CKB, ONE_CKB + 1}

\* requests of a managed account that vary what the funds search depends on
FundingArgs ==
    { TransferArgs(FALSE, TRUE, locked, change, capacity, fee, SighashAddress, data_len, "") :
        locked \in {NoLockedAddress, LockedOnPrimary}, change \in BOOLEAN,
        capacity \in Payments, fee \in Fees, data_len \in {0} }

\* requests that vary the funding descriptor, the destination and the
\* locked source
DescriptorArgs ==
    { TransferArgs(privkey, acct, locked, FALSE, 1000, 10, to, data_len, "") :
        privkey \in BOOLEAN, acct \in BOOLEAN,
        locked \in {NoLockedAddress,
                    LockedAddress(TRUE, 20, 32, "primary"),
                    LockedAddress(TRUE, 28, 96, "primary"),
                    LockedAddress(TRUE, 28, 160, "primary"),
                    LockedAddress(TRUE, 28, 0, "primary"),
                    LockedAddress(TRUE, 28, 32, "foreign")},
        to \in {ToAddress("Data", SIGHASH_TYPE_HASH, 20),
                ToAddress("Type", SIGHASH_TYPE_HASH, 28)},
        data_len \in {0, 1} }

\* requests with a field that does not parse, and requests the argument rules
\* of the subcommand refuse
MalformedArgs ==
    { TransferArgs(privkey, ~privkey, locked, FALSE, 1000, 10, SighashAddress, 0, field) :
        privkey \in BOOLEAN, locked \in {NoLockedAddress, LockedOnPrimary},
        field \in ParsedFields }
    \cup { TransferArgs(TRUE, FALSE, NoLockedAddress, TRUE, 1000, 10, SighashAddress, 0, "") }

\* requests whose locked address embeds the multisig hash of the primary key,
\* of the derived key, of a key that is not the account's
LockedKeyArgs ==
    { TransferArgs(FALSE, TRUE, LockedAddress(TRUE, 28, 32, key), change, 1000, 10,
                   SighashAddress, 0, "") :
        key \in {"primary", "chg0", "foreign"}, change \in BOOLEAN }

\* the variables of transfer, while another operation runs
NoTransfer ==
    /\ args = TransferArgs(FALSE, TRUE, NoLockedAddress, FALSE, 0, 0, SighashAddress, 0, "")
    /\ min_cell_capacity = 0
    /\ overflow_checks = "unset"
    /\ lock_hashes = <<>>
    /\ multisig_configs = {}
    /\ change_lock = "primary"
    /\ max_mature_number = 0
    /\ from_capacity = 0
    /\ infos = <<>>
    /\ lock_i = 0
    /\ scanned = <<>>
    /\ stopped = <<>>
    /\ rest_capacity = 0
    /\ inputs = <<>>
    /\ outputs = <<>>
    /\ broadcasts = 0

\* the variables of get_live_cells, while another operation runs
NoListing ==
    /\ to_number = 0
    /\ limit = 0
    /\ fast_mode = FALSE
    /\ stream = <<>>
    /\ live_infos = <<>>
    /\ halted = FALSE
    /\ total_count = 0
    /\ total_capacity = 0
    /\ current_count = 0
    /\ current_capacity = 0
    /\ total = <<>>

\* the variables of get_capacity, while another operation runs
NoCapacity ==
    /\ dao_capacity = 0
    /\ immature_capacity = 0

\* the variables of the signing closure, while another operation runs
NoSigner ==
    /\ account = "primary"
    /\ lock_args = {}
    /\ message = ""
    /\ signed = [kind |-> "", signature |-> "", keystore |-> 0]

\* a command line asking for one of `requests`, before it is matched
TransferStart(requests) ==
    /\ NoListing
    /\ NoSigner
    /\ NoCapacity
    /\ pc = "Matching"
    /\ args \in requests
    /\ min_cell_capacity \in FloorChoices
    /\ overflow_checks = "unset"
    /\ lock_hashes = <<>>
    /\ path_map = EmptyPathMap
    /\ multisig_configs = {}
    /\ change_lock = "primary"
    /\ max_mature_number = 0
    /\ from_capacity = 0
    /\ infos = <<>>
    /\ lock_i = 0
    /\ scanned = <<>>
    /\ stopped = <<>>
    /\ rest_capacity = 0
    /\ inputs = <<>>
    /\ outputs = <<>>
    /\ error = ""
    /\ rpc_calls = 0
    /\ keystore_calls = 0
    /\ broadcasts = 0

TransferInit ==
    TransferStart(FundingArgs \cup DescriptorArgs \cup MalformedArgs \cup LockedKeyArgs)

Init == TransferInit

Next ==
    \/ MatchCommandLine
    \/ Validate
    \/ ResolveIdentities
    \/ StartSearch
    \/ TerminatorCall
    \/ StreamEnd
    \/ Balance
    \/ Assemble
    \/ SignInputs
    \/ Broadcast

Spec == Init /\ [][Next]_vars

\* requests that vary the destination: hash type, code hash, length of the
\* arguments
DestinationArgs ==
    { TransferArgs(FALSE, TRUE, NoLockedAddress, FALSE, 1000, 10,
                   ToAddress(hash_type, code_hash, args_len), 0, "") :
        hash_type \in {"Type", "Data"},
        code_hash \in {SIGHASH_TYPE_HASH, MULTISIG_TYPE_HASH, "other"},
        args_len \in {0, 20, 28, 32} }

DestinationInit == TransferStart(DestinationArgs)

SpecDestination == DestinationInit /\ [][Next]_vars

\* payload lengths of a locked address: none, a sighash's, around 28, longer
PayloadLengths == {0, 20, 27, 28, 29, 36}

\* every value of the since value's top byte
SinceFlags == 0..255

\* requests that vary the payload of --from-locked-address
LockedSourceArgs ==
    { TransferArgs(FALSE, TRUE, LockedAddress(TRUE, len, flags, "primary"), FALSE,
                   1000, 10, SighashAddress, 0, "") :
        len \in PayloadLengths, flags \in SinceFlags }

LockedSourceInit == TransferStart(LockedSourceArgs)

SpecLockedSource == LockedSourceInit /\ [][Next]_vars

-----------------------------------------------------------------------------
(* get_live_cells, lines 453-514 *)

\* records func's stream yields, over the whole scan
MaxListed == 3

\* largest limit the model asks for
MaxLimit == 2

ListedKinds ==
    { Cell(cap, 0, "none", num, 1) : cap \in {500, 600}, num \in 1..3 }

\* the terminator counting in the totals only the records it does not collect
live_cells_terminator_TotalOutsideWindow(idx, info, counts) ==
    LET stop == idx >= limit \/ info.number > to_number
        push_info == ~stop
    IN  [stop |-> fast_mode /\ stop,
         push_info |-> push_info,
         total_count |-> IF push_info THEN counts.total_count
                         ELSE counts.total_count + 1,
         total_capacity |-> IF push_info THEN counts.total_capacity
                            ELSE AddU64(counts.total_capacity, info.capacity),
         current_count |-> IF push_info THEN counts.current_count + 1
                           ELSE counts.current_count,
         current_capacity |-> IF push_info
                              THEN AddU64(counts.current_capacity, info.capacity)
                              ELSE counts.current_capacity]

\* the terminator without the test of the block number
live_cells_terminator_IgnoresUpperBound(idx, info, counts) ==
    LET stop == idx >= limit
        push_info == ~stop
    IN  [stop |-> fast_mode /\ stop,
         push_info |-> push_info,
         total_count |-> counts.total_count + 1,
         total_capacity |-> AddU64(counts.total_capacity, info.capacity),
         current_count |-> IF push_info THEN counts.current_count + 1
                           ELSE counts.current_count,
         current_capacity |-> IF push_info
                              THEN AddU64(counts.current_capacity, info.capacity)
                              ELSE counts.current_capacity]

\* the terminator halting at the window boundary in either mode
live_cells_terminator_HaltsInEveryMode(idx, info, counts) ==
    LET stop == idx >= limit \/ info.number > to_number
        push_info == ~stop
    IN  [stop |-> stop,
         push_info |-> push_info,
         total_count |-> counts.total_count + 1,
         total_capacity |-> AddU64(counts.total_capacity, info.capacity),
         current_count |-> IF push_info THEN counts.current_count + 1
                           ELSE counts.current_count,
         current_capacity |-> IF push_info
                              THEN AddU64(counts.current_capacity, info.capacity)
                              ELSE counts.current_capacity]

\* the terminator never halting the scan, whatever the mode
live_cells_terminator_NeverHalts(idx, info, counts) ==
    LET stop == idx >= limit \/ info.number > to_number
        push_info == ~stop
    IN  [stop |-> FALSE,
         push_info |-> push_info,
         total_count |-> counts.total_count + 1,
         total_capacity |-> AddU64(counts.total_capacity, info.capacity),
         current_count |-> IF push_info THEN counts.current_count + 1
                           ELSE counts.current_count,
         current_capacity |-> IF push_info
                              THEN AddU64(counts.current_capacity, info.capacity)
                              ELSE counts.current_capacity]

\* lines 472-482, called as the idx-th call of the scan on record info: what
\* it returns and the counters it leaves
live_cells_terminator(idx, info, counts) ==
    LET stop == idx >= limit \/ info.number > to_number
        push_info == ~stop
    IN  [stop |-> fast_mode /\ stop,
         push_info |-> push_info,
         total_count |-> counts.total_count + 1,
         total_capacity |-> AddU64(counts.total_capacity, info.capacity),
         current_count |-> IF push_info THEN counts.current_count + 1
                           ELSE counts.current_count,
         current_capacity |-> IF push_info
                              THEN AddU64(counts.current_capacity, info.capacity)
                              ELSE counts.current_capacity]

Counters ==
    [total_count |-> total_count, total_capacity |-> total_capacity,
     current_count |-> current_count, current_capacity |-> current_capacity]

\* self.with_db opens the index (lines 466-467)
ListOpen ==
    /\ pc = "ListOpening"
    /\ rpc_calls' = rpc_calls + 1
    /\ \E index_ok \in BOOLEAN :
        IF index_ok THEN pc' = "ListScanning" /\ error' = error
        ELSE Fail("Index database may not ready")
    /\ UNCHANGED <<listerVars, signerVars, capacityVars, keystore_calls>>
    /\ UNCHANGED <<args, min_cell_capacity, overflow_checks, lock_hashes, path_map,
                   multisig_configs, change_lock, max_mature_number, from_capacity,
                   infos, lock_i, scanned, stopped, rest_capacity, inputs, outputs,
                   broadcasts>>

\* func's stream yields its next record and the terminator is called on it
ListTerminatorCall ==
    /\ pc = "ListScanning"
    /\ Len(stream) < MaxListed
    /\ \E info \in { c \in ListedKinds :
                       stream = <<>> \/ stream[Len(stream)].number <= c.number } :
        LET r == live_cells_terminator(Len(stream), info, Counters)
        IN  /\ stream' = Append(stream, info)
            /\ live_infos' = IF r.push_info THEN Append(live_infos, info) ELSE live_infos
            /\ halted' = r.stop
            /\ total_count' = r.total_count
            /\ total_capacity' = r.total_capacity
            /\ current_count' = r.current_count
            /\ current_capacity' = r.current_capacity
            /\ pc' = IF r.stop THEN "ListScanned" ELSE pc
    /\ UNCHANGED <<to_number, limit, fast_mode, total, signerVars, capacityVars, error, rpc_calls,
                   keystore_calls>>
    /\ UNCHANGED <<args, min_cell_capacity, overflow_checks, lock_hashes, path_map,
                   multisig_configs, change_lock, max_mature_number, from_capacity,
                   infos, lock_i, scanned, stopped, rest_capacity, inputs, outputs,
                   broadcasts>>

\* func's stream has no further record
ListStreamEnd ==
    /\ pc = "ListScanning"
    /\ pc' = "ListScanned"
    /\ UNCHANGED <<listerVars, signerVars, capacityVars, error, rpc_calls, keystore_calls>>
    /\ UNCHANGED <<args, min_cell_capacity, overflow_checks, lock_hashes, path_map,
                   multisig_configs, change_lock, max_mature_number, from_capacity,
                   infos, lock_i, scanned, stopped, rest_capacity, inputs, outputs,
                   broadcasts>>

\* lines 493-513
ListReturn ==
    /\ pc = "ListScanned"
    /\ rpc_calls' = rpc_calls + 1
    /\ \E rpc_ok \in BOOLEAN, m \in MatureNumbers :
        IF rpc_ok
            THEN /\ pc' = "ListReturned"
                 /\ max_mature_number' = m
                 /\ total' = IF fast_mode THEN <<>> ELSE <<total_count, total_capacity>>
                 /\ error' = error
        ELSE Fail("get_max_mature_number: rpc error") /\ UNCHANGED <<total, max_mature_number>>
    /\ UNCHANGED <<to_number, limit, fast_mode, stream, live_infos, halted, total_count,
                   total_capacity, current_count, current_capacity, signerVars, capacityVars,
                   keystore_calls>>
    /\ UNCHANGED <<args, min_cell_capacity, overflow_checks, lock_hashes, path_map,
                   multisig_configs, change_lock, from_capacity,
                   infos, lock_i, scanned, stopped, rest_capacity, inputs, outputs,
                   broadcasts>>

ListInit ==
    /\ NoTransfer
    /\ NoSigner
    /\ NoCapacity
    /\ path_map = EmptyPathMap
    /\ pc = "ListOpening"
    /\ error = ""
    /\ rpc_calls = 0
    /\ keystore_calls = 0
    /\ to_number \in {1, 2, U64Max}
    /\ limit \in 0..MaxLimit
    /\ fast_mode \in BOOLEAN
    /\ stream = <<>>
    /\ live_infos = <<>>
    /\ halted = FALSE
    /\ total_count = 0
    /\ total_capacity = 0
    /\ current_count = 0
    /\ current_capacity = 0
    /\ total = <<>>

ListNext == ListOpen \/ ListTerminatorCall \/ ListStreamEnd \/ ListReturn

SpecLiveCells == ListInit /\ [][ListNext]_vars

-----------------------------------------------------------------------------
(* get_capacity, lines 425-451 *)

DAO_TYPE_HASH == "dao"

\* the records a stream of get_capacity may yield: no type script, the DAO's,
\* another one; an output of an ordinary transaction, of a cellbase
CapacityKinds ==
    { Cell(cap, 0, type, at[1], at[2]) :
        cap \in {500, 600}, type \in {"none", DAO_TYPE_HASH, "udt"},
        at \in {<<1, 1>>, <<2, 0>>, <<3, 0>>} }

CapacityCounters ==
    [total_capacity |-> total_capacity, dao_capacity |-> dao_capacity,
     immature_capacity |-> immature_capacity]

\* the terminator adding to the immature subtotal only the records that are
\* not the DAO's
capacity_terminator_DaoNeverImmature(info, max_mature, counts) ==
    [stop |-> FALSE, push_info |-> FALSE,
     immature_capacity |->
        IF ~is_mature(info, max_mature) /\ info.type_hashes # DAO_TYPE_HASH
            THEN AddU64(counts.immature_capacity, info.capacity)
        ELSE counts.immature_capacity,
     dao_capacity |->
        IF info.type_hashes = DAO_TYPE_HASH
            THEN AddU64(counts.dao_capacity, info.capacity)
        ELSE counts.dao_capacity,
     total_capacity |-> AddU64(counts.total_capacity, info.capacity)]

\* the terminator ending the scan of a lock hash at its first deposit
capacity_terminator_StopsOnDeposit(info, max_mature, counts) ==
    [stop |-> info.type_hashes = DAO_TYPE_HASH, push_info |-> FALSE,
     immature_capacity |->
        IF ~is_mature(info, max_mature)
            THEN AddU64(counts.immature_capacity, info.capacity)
        ELSE counts.immature_capacity,
     dao_capacity |->
        IF info.type_hashes = DAO_TYPE_HASH
            THEN AddU64(counts.dao_capacity, info.capacity)
        ELSE counts.dao_capacity,
     total_capacity |-> AddU64(counts.total_capacity, info.capacity)]

\* lines 431-445: what the terminator returns on info and the counters it
\* leaves
capacity_terminator(info, max_mature, counts) ==
    [stop |-> FALSE, push_info |-> FALSE,
     immature_capacity |->
        IF ~is_mature(info, max_mature)
            THEN AddU64(counts.immature_capacity, info.capacity)
        ELSE counts.immature_capacity,
     dao_capacity |->
        IF info.type_hashes = DAO_TYPE_HASH
            THEN AddU64(counts.dao_capacity, info.capacity)
        ELSE counts.dao_capacity,
     total_capacity |-> AddU64(counts.total_capacity, info.capacity)]

\* the variables of transfer and of the other operations that get_capacity
\* does not use
CapacityFrame ==
    UNCHANGED <<args, min_cell_capacity, overflow_checks, path_map, multisig_configs,
                change_lock, from_capacity, infos, rest_capacity, inputs,
                outputs, keystore_calls, broadcasts, to_number, limit, fast_mode,
                stream, halted, total_count, current_count,
                current_capacity, total, signerVars>>

\* line 426 and the opening of the index database (line 427)
CapacityOpen ==
    /\ pc = "CapacityStarting"
    /\ rpc_calls' = rpc_calls + 1
    /\ \E outcome \in {"ok", "rpc error", "index error"}, m \in MatureNumbers :
        IF outcome = "ok"
            THEN /\ max_mature_number' = m
                 /\ lock_i' = 1
                 /\ pc' = IF lock_hashes = <<>> THEN "CapacityReturned"
                          ELSE "CapacityScanning"
                 /\ error' = error
        ELSE /\ Fail(IF outcome = "rpc error" THEN "get_max_mature_number: rpc error"
                     ELSE "Index database may not ready")
             /\ UNCHANGED <<max_mature_number, lock_i>>
    /\ UNCHANGED <<lock_hashes, scanned, stopped, live_infos, total_capacity,
                   capacityVars>>
    /\ CapacityFrame

\* get_live_cells_by_lock yields the next record of the stream of
\* lock_hashes[lock_i] and calls the terminator on it
CapacityTerminatorCall ==
    /\ pc = "CapacityScanning"
    /\ TotalScanned < MaxCells
    /\ \E info \in { c \in CapacityKinds :
                       scanned[lock_i] = <<>>
                       \/ scanned[lock_i][Len(scanned[lock_i])].number <= c.number } :
        LET r == capacity_terminator(info, max_mature_number, CapacityCounters)
        IN  /\ scanned' = [scanned EXCEPT ![lock_i] = Append(@, info)]
            /\ total_capacity' = r.total_capacity
            /\ dao_capacity' = r.dao_capacity
            /\ immature_capacity' = r.immature_capacity
            /\ live_infos' = IF r.push_info THEN Append(live_infos, info) ELSE live_infos
            /\ stopped' = [stopped EXCEPT ![lock_i] = r.stop]
            /\ lock_i' = IF r.stop THEN lock_i + 1 ELSE lock_i
            /\ pc' = IF r.stop /\ lock_i = Len(lock_hashes) THEN "CapacityReturned"
                     ELSE pc
    /\ UNCHANGED <<error, rpc_calls, lock_hashes, max_mature_number>>
    /\ CapacityFrame

\* the stream of lock_hashes[lock_i] has no further record; after the last
\* lock hash the three sums are returned (line 449)
CapacityStreamEnd ==
    /\ pc = "CapacityScanning"
    /\ lock_i' = lock_i + 1
    /\ pc' = IF lock_i = Len(lock_hashes) THEN "CapacityReturned" ELSE pc
    /\ UNCHANGED <<error, rpc_calls, lock_hashes, scanned, stopped, live_infos,
                   max_mature_number, total_capacity, capacityVars>>
    /\ CapacityFrame

CapacityInit ==
    /\ NoSigner
    /\ NoCapacity
    /\ NoListing
    /\ args = TransferArgs(FALSE, TRUE, NoLockedAddress, FALSE, 0, 0, SighashAddress, 0, "")
    /\ min_cell_capacity = 0
    /\ overflow_checks = "unset"
    /\ path_map = EmptyPathMap
    /\ multisig_configs = {}
    /\ change_lock = "primary"
    /\ max_mature_number = 0
    /\ from_capacity = 0
    /\ infos = <<>>
    /\ lock_i = 0
    /\ rest_capacity = 0
    /\ inputs = <<>>
    /\ outputs = <<>>
    /\ broadcasts = 0
    /\ pc = "CapacityStarting"
    /\ error = ""
    /\ rpc_calls = 0
    /\ keystore_calls = 0
    /\ lock_hashes \in {<<"primary">>, <<"primary", "chg0">>}
    /\ scanned = [i \in 1..Len(lock_hashes) |-> <<>>]
    /\ stopped = [i \in 1..Len(lock_hashes) |-> FALSE]

CapacityNext == CapacityOpen \/ CapacityTerminatorCall \/ CapacityStreamEnd

SpecCapacity == CapacityInit /\ [][CapacityNext]_vars

-----------------------------------------------------------------------------
(* get_keystore_signer, lines 729-752 *)

\* calls made to one signing closure
MaxSignCalls == 2

H160s == {"primary", "chg0", "ext0", "foreign"}

ZeroDigest == "0x0"

Digests == {ZeroDigest, "0x1"}

\* [0u8; 65]
ZeroSignature == "[0u8; 65]"

EmptyPath == "m"

\* the registries transfer may hand to get_keystore_signer
PathMaps ==
    { [k \in keys |-> IF k = "chg0" THEN "m/44'/309'/0'/1/0" ELSE "m/44'/309'/0'/0/0"] :
        keys \in {{}, {"chg0"}, {"chg0", "ext0"}} }

NoneResult == [kind |-> "None", signature |-> "", keystore |-> 0]

SomeResult(signature, calls) ==
    [kind |-> "Some", signature |-> signature, keystore |-> calls]

ErrResult == [kind |-> "Err", signature |-> "", keystore |-> 1]

\* the registry searched before the primary account is looked for
ResolvedPaths_RegistryFirst(pm, acct, candidates) ==
    IF candidates \cap DOMAIN pm # {} THEN { pm[k] : k \in candidates \cap DOMAIN pm }
    ELSE IF acct \in candidates THEN {EmptyPath}
    ELSE {}

\* lines 736-743: the paths the closure may resolve; find_map goes over a
\* HashSet, so any candidate the registry knows may be the one found
ResolvedPaths(pm, acct, candidates) ==
    IF acct \in candidates THEN {EmptyPath}
    ELSE { pm[k] : k \in candidates \cap DOMAIN pm }

\* the closure without the test of the digest
SignerResults_NoShortCircuit(pm, acct, candidates, digest) ==
    IF ResolvedPaths(pm, acct, candidates) = {} THEN {NoneResult}
    ELSE { SomeResult(<<acct, path, digest>>, 1) :
             path \in ResolvedPaths(pm, acct, candidates) } \cup {ErrResult}

\* the closure testing the digest before it resolves a path
SignerResults_DigestFirst(pm, acct, candidates, digest) ==
    IF digest = ZeroDigest THEN {SomeResult(ZeroSignature, 0)}
    ELSE IF ResolvedPaths(pm, acct, candidates) = {} THEN {NoneResult}
    ELSE { SomeResult(<<acct, path, digest>>, 1) :
             path \in ResolvedPaths(pm, acct, candidates) } \cup {ErrResult}

\* lines 735-751: the values the closure may return on (candidates, digest),
\* each with the number of key store calls made
SignerResults(pm, acct, candidates, digest) ==
    IF ResolvedPaths(pm, acct, candidates) = {} THEN {NoneResult}
    ELSE IF digest = ZeroDigest THEN {SomeResult(ZeroSignature, 0)}
    ELSE { SomeResult(<<acct, path, digest>>, 1) :
             path \in ResolvedPaths(pm, acct, candidates) } \cup {ErrResult}

SignerCall ==
    /\ pc = "SignerBuilt"
    /\ keystore_calls < MaxSignCalls
    /\ \E candidates \in SUBSET H160s, digest \in Digests :
        \E r \in SignerResults(path_map, account, candidates, digest) :
            /\ lock_args' = candidates
            /\ message' = digest
            /\ signed' = r
            /\ keystore_calls' = keystore_calls + r.keystore
    /\ UNCHANGED <<pc, error, rpc_calls, account, path_map, listerVars, capacityVars>>
    /\ UNCHANGED <<args, min_cell_capacity, overflow_checks, lock_hashes,
                   multisig_configs, change_lock, max_mature_number, from_capacity,
                   infos, lock_i, scanned, stopped, rest_capacity, inputs, outputs,
                   broadcasts>>

SignerInit ==
    /\ NoTransfer
    /\ NoListing
    /\ NoCapacity
    /\ pc = "SignerBuilt"
    /\ error = ""
    /\ rpc_calls = 0
    /\ keystore_calls = 0
    /\ account = "primary"
    /\ path_map \in PathMaps
    /\ lock_args = {}
    /\ message = ""
    /\ signed = [kind |-> "", signature |-> "", keystore |-> 0]

SignerNext == SignerCall

SpecSigner == SignerInit /\ [][SignerNext]_vars

-----------------------------------------------------------------------------
(* Properties of the funds search *)

K600 == Cell(600, 0, "none", 1, 1)

K500 == Cell(500, 0, "none", 2, 1)

K10000 == Cell(10000, 0, "none", 3, 1)

Eligible(info) == IsPlain(info) /\ is_mature(info, max_mature_number)

\* the eligible records the index has yielded, in scan order
EligibleScanned == SelectSeq(Flatten(scanned), Eligible)

Prefix(s, k) == SubSeq(s, 1, k)

\* payment + fee, as a number
PaymentPlusFee == args.capacity + args.tx_fee

ReachingPrefixes ==
    { k \in 0..Len(EligibleScanned) :
        SumCapacity(Prefix(EligibleScanned, k)) >= PaymentPlusFee }

Least(S) == CHOOSE k \in S : \A j \in S : k <= j

\* C1: the collected records are a prefix, in scan order, of the eligible
\* records; when some prefix reaches payment + fee they are the shortest such
\* prefix; and when their sum reaches payment + fee, the sum without the last
\* collected record is below it.
C1_SmallestPrefix ==
    /\ infos = Prefix(EligibleScanned, Len(infos))
    /\ ReachingPrefixes # {} =>
         infos = Prefix(EligibleScanned, Least(ReachingPrefixes))
    /\ (infos # <<>> /\ SumCapacity(infos) >= PaymentPlusFee) =>
         SumCapacity(Prefix(infos, Len(infos) - 1)) < PaymentPlusFee

\* two records collected, the second one reaching the target, and a later
\* eligible record yielded but left out
C1_Witness ==
    /\ Len(infos) = 2
    /\ SumCapacity(infos) >= PaymentPlusFee
    /\ Len(EligibleScanned) > 2
    /\ pc = "Balancing"

\* C2: every collected record has no attached data, no type script and is
\* mature, and the accumulated capacity is the sum of the collected records:
\* no other record adds to it.
C2_OnlyPlainMatureCollected ==
    /\ \A i \in 1..Len(infos) :
         /\ infos[i].data_bytes = 0
         /\ infos[i].type_hashes = "none"
         /\ is_mature(infos[i], max_mature_number)
    /\ from_capacity = SumCapacity(infos)

\* a record with data, a typed record and an immature record were all
\* yielded in one search
C2_Witness ==
    /\ \E i \in 1..Len(Flatten(scanned)) : Flatten(scanned)[i].data_bytes # 0
    /\ \E i \in 1..Len(Flatten(scanned)) : Flatten(scanned)[i].type_hashes # "none"
    /\ \E i \in 1..Len(Flatten(scanned)) :
         ~is_mature(Flatten(scanned)[i], max_mature_number)
    /\ pc = "Balancing"

-----------------------------------------------------------------------------
(* Properties of balancing *)

\* collected - payment - fee, as a number
Change == from_capacity - args.capacity - args.tx_fee

RestOverCeiling ==
    Change # 0 /\ Change < min_cell_capacity /\ args.tx_fee + Change > ONE_CKB

\* C3: balancing fails when the fee exceeds ONE_CKB, and when the change is
\* nonzero, below the floor and fee + change exceeds ONE_CKB; in every other
\* case with sufficient funds it succeeds; when it fails nothing was built,
\* signed or broadcast, and nothing happens afterwards.
C3_Balancing ==
    /\ [][pc = "Balancing" =>
            /\ (args.tx_fee > ONE_CKB \/ RestOverCeiling) =>
                 (pc' = "Failed" /\ error' \in {FeeTooHigh, FeeTooHighAdjust})
            /\ (args.tx_fee <= ONE_CKB /\ ~RestOverCeiling /\ Change >= 0) =>
                 pc' = "Assembling"
            /\ pc' = "Failed" =>
                 (inputs' = <<>> /\ outputs' = <<>> /\ broadcasts' = 0)]_vars
    /\ [][pc = "Failed" => pc' = "Failed" /\ inputs' = inputs /\ outputs' = outputs
                           /\ broadcasts' = broadcasts]_vars

\* the fee is within the ceiling and the funds suffice, and balancing failed
\* on the small rest
C3_Witness ==
    /\ pc = "Failed"
    /\ error = FeeTooHighAdjust
    /\ args.tx_fee <= ONE_CKB
    /\ Change > 0

\* every stream was read to its end, so the records yielded are all there are
AllStreamsEnded == \A i \in 1..Len(stopped) : ~stopped[i]

\* C4 (with the fee within the ceiling): transfer fails with the
\* insufficient-funds error if the eligible capacity over all lock hashes is
\* below payment + fee, and does not fail with it otherwise.
C4_InsufficientFunds ==
    [][(pc = "Balancing" /\ args.tx_fee <= ONE_CKB) =>
         /\ (AllStreamsEnded /\ SumCapacity(EligibleScanned) < PaymentPlusFee) =>
              (pc' = "Failed" /\ error' = NotEnough)
         /\ SumCapacity(EligibleScanned) >= PaymentPlusFee => error' # NotEnough]_vars

-----------------------------------------------------------------------------
(* The two end-to-end cases of one identity holding [600, 500, 10000] *)

IsPrefixOf(s, t) == Len(s) <= Len(t) /\ s = Prefix(t, Len(s))

\* the search of the primary identity alone is over, and its stream was one
\* that begins with the records of `held`: it yielded them all, or was
\* stopped on the way
Holds(held, payment, fee) ==
    /\ args.capacity = payment
    /\ args.tx_fee = fee
    /\ lock_hashes = <<"primary">>
    /\ lock_i = 2
    /\ pc # "Panicked"
    /\ IsPrefixOf(scanned[1], held)
    /\ (stopped[1] \/ scanned[1] = held)

Balanced == pc \in {"Assembling", "SigningInputs", "Finalizing", "Submitted"}

PaymentOutput == Output(args.capacity, "to_address", args.to_data_len)

-----------------------------------------------------------------------------
(* Properties of get_live_cells *)

\* C7: after every call of the terminator, in every scan, current_count <=
\* total_count and current_capacity <= total_capacity.
C7_CurrentWithinTotal ==
    /\ current_count <= total_count
    /\ current_capacity <= total_capacity

\* a scan without fast mode that collected a record and went on past the window
C7_Witness ==
    /\ pc = "ListScanned"
    /\ ~fast_mode
    /\ current_count >= 1
    /\ current_count < total_count
    /\ current_capacity < total_capacity

ScanEnded == pc = "ListScanned"

\* C8 as stated: in fast mode, when the scan has ended, by a halt or by the end
\* of the stream, total_count = current_count.
C8_FastTotalEqualsCurrent ==
    (fast_mode /\ ScanEnded) => total_count = current_count

\* C8, amended: in fast mode, a scan ended by the end of the stream has
\* total_count = current_count; a scan halted at the window boundary has
\* counted the record it halted on in the totals only, so total_count =
\* current_count + 1 and total_capacity = current_capacity + that record's
\* capacity.
C8_FastTotalCountsBoundary ==
    (fast_mode /\ ScanEnded) =>
        IF halted
            THEN /\ total_count = current_count + 1
                 /\ total_capacity = current_capacity + stream[Len(stream)].capacity
                 /\ Len(live_infos) = Len(stream) - 1
        ELSE /\ total_count = current_count
             /\ total_capacity = current_capacity
             /\ live_infos = stream

\* a fast scan halted at the boundary after it collected a record
C8_Witness ==
    /\ fast_mode
    /\ ScanEnded
    /\ halted
    /\ current_count >= 1

-----------------------------------------------------------------------------
(* Properties of get_keystore_signer *)

Called == signed.kind # ""

KnownCandidate ==
    account \in lock_args \/ lock_args \cap DOMAIN path_map # {}

\* C9 as stated: on the zero digest the closure returns the zero signature,
\* for every candidate set, and makes no key store call.
C9_ZeroSignatureForEveryCandidateSet ==
    (Called /\ message = ZeroDigest) => signed = SomeResult(ZeroSignature, 0)

\* C9, amended: on the zero digest the closure makes no key store call; it
\* returns the zero signature when the candidate set holds the primary
\* account or a key of path_map, and None when it holds neither.
C9_ZeroSignatureForKnownCandidate ==
    /\ [](Called /\ message = ZeroDigest =>
            signed = IF KnownCandidate THEN SomeResult(ZeroSignature, 0)
                     ELSE NoneResult)
    /\ [][message' = ZeroDigest => keystore_calls' = keystore_calls]_vars

\* the zero digest signed for a derived key, the primary account not a candidate
C9_Witness ==
    /\ Called
    /\ message = ZeroDigest
    /\ account \notin lock_args
    /\ lock_args \cap DOMAIN path_map # {}
    /\ signed.signature = ZeroSignature

\* C10: when the candidate set holds neither the primary account nor a key of
\* path_map, the closure returns None for any digest: no error, no key store
\* call.
C10_NoneWhenNoCandidateKnown ==
    /\ [](Called /\ ~KnownCandidate => signed = NoneResult)
    /\ [][~KnownCandidate' => keystore_calls' = keystore_calls]_vars

\* None returned on each digest for a candidate set of unknown identities,
\* with a registry that is not empty
C10_Witness ==
    /\ Called
    /\ ~KnownCandidate
    /\ lock_args # {}
    /\ DOMAIN path_map # {}
    /\ signed.kind = "None"

-----------------------------------------------------------------------------
(* Properties of the checks of transfer *)

\* transfer has parsed its arguments: the network type was fetched and the
\* command line accepted
Parsed ==
    /\ pc \notin {"Matching", "Validating"}
    /\ error \notin {"get_network_type: rpc error"} \cup ParsedFields
    /\ ClapError(args) = ""

LengthMessage == "Invalid from-locked-address's args: invalid length"

FlagsMessage == "Invalid from-locked-address's args: invalid since flags"

AbsoluteMessage == "Invalid from-locked-address's args: only support absolute since value"

EpochMessage == "Invalid from-locked-address's args: only support epoch since value"

\* top bytes with no reserved bit and a metric: block number, epoch, timestamp,
\* absolute (below 128) and relative
WellFormedFlags == {0, 32, 64, 128, 160, 192}

\* the messages of the constraints a payload violates
Violations(locked) ==
    (IF locked.args_len # 28 THEN {LengthMessage} ELSE {})
    \cup (IF locked.since_flags \notin WellFormedFlags THEN {FlagsMessage} ELSE {})
    \cup (IF locked.since_flags >= 128 THEN {AbsoluteMessage} ELSE {})
    \cup (IF locked.since_flags \in {0, 64} THEN {EpochMessage} ELSE {})

\* C11: a locked address whose payload is not 28 bytes long, or whose since
\* value has malformed flags, is relative, or is absolute with a block number
\* or timestamp metric, is rejected with the message of a constraint it
\* violates (the length first); a 28-byte payload with an absolute epoch since
\* value passes these checks.
C11_LockedSourceValidation ==
    (Parsed /\ args.from_locked_address.present) =>
        LET locked == args.from_locked_address
        IN  IF Violations(locked) = {}
                THEN error \notin {LengthMessage, FlagsMessage, AbsoluteMessage, EpochMessage}
            ELSE /\ pc = "Failed"
                 /\ error \in Violations(locked)
                 /\ locked.args_len # 28 => error = LengthMessage
                 /\ lock_hashes = <<>>
                 /\ broadcasts = 0

\* the one accepted payload got through to the funds search
C11_Witness ==
    /\ args.from_locked_address = LockedAddress(TRUE, 28, 32, "primary")
    /\ args \in LockedSourceArgs
    /\ pc = "SearchingFunds"
    /\ lock_hashes[1] = "locked"

-----------------------------------------------------------------------------
(* Properties of get_capacity *)

Visited == Flatten(scanned)

IsDeposit(info) == info.type_hashes = DAO_TYPE_HASH

FailsMaturity(info) ==
    info.tx_index = 0 /\ info.number # 0 /\ info.number > max_mature_number

InCapacity == pc \in {"CapacityScanning", "CapacityReturned"}

\* C12: the grand total is the capacity of every visited record, the deposit
\* subtotal that of the visited records with the DAO type hash, the immature
\* subtotal that of the visited records failing the maturity check, whatever
\* their type hash.
C12_CapacitySubtotals ==
    InCapacity =>
        /\ total_capacity = SumCapacity(Visited)
        /\ dao_capacity = SumCapacity(SelectSeq(Visited, IsDeposit))
        /\ immature_capacity = SumCapacity(SelectSeq(Visited, FailsMaturity))

\* a scan that visited a deposit failing the maturity check, a mature deposit
\* and a record that is no deposit
C12_Witness ==
    /\ pc = "CapacityReturned"
    /\ \E i \in 1..Len(Visited) : IsDeposit(Visited[i]) /\ FailsMaturity(Visited[i])
    /\ \E i \in 1..Len(Visited) : IsDeposit(Visited[i]) /\ ~FailsMaturity(Visited[i])
    /\ \E i \in 1..Len(Visited) : ~IsDeposit(Visited[i])
    /\ immature_capacity < dao_capacity
    /\ dao_capacity < total_capacity

-----------------------------------------------------------------------------
(* Properties of the stages of transfer *)

\* transfer was entered and got the network type
Entered ==
    /\ pc \notin {"Matching", "Validating"}
    /\ ClapError(args) = ""
    /\ error # "get_network_type: rpc error"

\* a request with a field that does not parse, a locked address that violates
\* a constraint, a destination of another shape, or a payment below the floor
InvalidRequest ==
    \/ ParseError(args) # ""
    \/ (args.from_locked_address.present /\ Violations(args.from_locked_address) # {})
    \/ args.to_address.hash_type # "Type"
    \/ args.to_address \notin {ToAddress("Type", SIGHASH_TYPE_HASH, 20),
                               ToAddress("Type", MULTISIG_TYPE_HASH, 20),
                               ToAddress("Type", MULTISIG_TYPE_HASH, 28)}
    \/ args.capacity < min_cell_capacity + args.to_data_len * ONE_CKB

NothingBuilt ==
    /\ keystore_calls = 0
    /\ lock_hashes = <<>>
    /\ scanned = <<>>
    /\ infos = <<>>
    /\ inputs = <<>>
    /\ outputs = <<>>
    /\ broadcasts = 0

\* C13 as stated: a request that fails validation ends in Failed and no call
\* was made to the RPC client, the index or the key store.
C13_NoCollaboratorCalled ==
    (Entered /\ InvalidRequest) => (pc = "Failed" /\ rpc_calls = 0 /\ NothingBuilt)

\* C13, amended: a request that fails validation ends in Failed with no call
\* to the index or the key store, nothing built and no broadcast; the one
\* call made is the RPC query of the network type, which precedes the parsing
\* of the arguments.  A command line the argument rules refuse fails before
\* that call.
C13_OnlyNetworkTypeFetched ==
    /\ (Entered /\ InvalidRequest) => (pc = "Failed" /\ rpc_calls = 1 /\ NothingBuilt)
    /\ (pc # "Matching" /\ ClapError(args) # "") =>
            (pc = "Failed" /\ rpc_calls = 0 /\ NothingBuilt)

\* a payment below the floor, refused after the network type was fetched
C13_Witness ==
    /\ pc = "Failed"
    /\ error = "Capacity can not be less than the minimal cell capacity"
    /\ args.capacity < min_cell_capacity + args.to_data_len * ONE_CKB
    /\ rpc_calls = 1

\* C14: when send_transaction answers with a hash other than the
\* transaction's, transfer ends in Failed with an error (it does not crash),
\* and send_transaction is not called again.
C14_HashMismatchIsAnError ==
    /\ [][(pc = "Finalizing" /\ broadcasts' = broadcasts + 1 /\ pc' # "Submitted") =>
            (pc' = "Failed" /\ error' # "")]_vars
    /\ [][broadcasts > 0 => broadcasts' = broadcasts]_vars

ExactlyOneDescriptor == args.privkey_path # args.from_account

ClapMessages ==
    {"The following required arguments were not provided",
     "The argument cannot be used with one or more of the other specified arguments"}

Stages ==
    <<"Matching", "Validating", "ResolvingIdentities", "SearchingFunds", "Balancing",
      "Assembling", "SigningInputs", "Finalizing", "Submitted">>

Ended == {"Submitted", "Failed", "Panicked"}

\* stage `later` comes next after stage `earlier`
Follows(earlier, later) ==
    \E i \in 1..(Len(Stages) - 1) : earlier = Stages[i] /\ later = Stages[i + 1]

\* C16: send_transaction is called at most once, on the step out of
\* Finalizing, which is entered only through every earlier stage in order; a
\* run that failed before it has broadcast nothing, and a run that ended takes
\* no further step.
C16_BroadcastOnceAtTheEnd ==
    /\ [](broadcasts <= 1)
    /\ [](broadcasts = 1 => pc \in Ended)
    /\ []((pc = "Failed" /\ error # "Send transaction error") => broadcasts = 0)
    /\ [][broadcasts' # broadcasts =>
            (pc = "Finalizing" /\ error = "" /\ outputs # <<>> /\
             lock_hashes # <<>> /\ lock_i = Len(lock_hashes) + 1)]_vars
    /\ [][pc' # pc =>
            (Follows(pc, pc') \/ (pc \notin Ended /\ pc' \in {"Failed", "Panicked"}))]_vars
    /\ [][(pc \in Ended) => (pc' = pc /\ broadcasts' = broadcasts /\
                            rpc_calls' = rpc_calls /\
                            keystore_calls' = keystore_calls)]_vars

\* a signed transfer, broadcast once
C16_Witness ==
    /\ pc = "Submitted"
    /\ broadcasts = 1
    /\ inputs # <<>>

-----------------------------------------------------------------------------
(* Properties of the search over the lock hashes *)

TargetReached == from_capacity >= PaymentPlusFee

\* the step is a call of the funding terminator
TerminatorCalled == pc = "SearchingFunds" /\ scanned' # scanned

\* C17: once the accumulated capacity has reached payment + fee, every later
\* call of the terminator, on whichever lock hash, returns stop, the scan of
\* that lock hash reads no further record, and infos and from_capacity never
\* change again.
C17_StopPersistsAcrossScans ==
    /\ [][TargetReached => (infos' = infos /\ from_capacity' = from_capacity)]_vars
    /\ [][(TargetReached /\ TerminatorCalled) =>
            (stopped'[lock_i] /\ lock_i' = lock_i + 1 /\
             Len(scanned'[lock_i]) = Len(scanned[lock_i]) + 1)]_vars

\* the target was reached on the first lock hash, and the terminator was
\* called again on the second and on the third
C17_Witness ==
    /\ Len(lock_hashes) = 3
    /\ stopped[1] /\ stopped[2] /\ stopped[3]
    /\ Len(scanned[2]) = 1
    /\ Len(scanned[3]) = 1
    /\ infos # <<>>
    /\ \A i \in 1..Len(infos) : \E j \in 1..Len(scanned[1]) : infos[i] = scanned[1][j]
    /\ pc = "Balancing"

-----------------------------------------------------------------------------
(* Properties of the window of get_live_cells *)

\* the positions of the stream whose record is within the window: ordinal
\* index (from 0) below limit, block number at most to_number
Window ==
    { i \in 1..Len(stream) : i - 1 < limit /\ stream[i].number <= to_number }

RECURSIVE Pick(_, _, _)
\* the records of s at the positions of `positions`, from position i on
Pick(s, positions, i) ==
    IF i > Len(s) THEN <<>>
    ELSE (IF i \in positions THEN <<s[i]>> ELSE <<>>) \o Pick(s, positions, i + 1)

\* C18: the records collected are those of the stream with ordinal index below
\* limit and block number at most to_number, and the current counters count
\* them; so at most limit records are collected, none above to_number.
C18_WindowCollected ==
    /\ live_infos = Pick(stream, Window, 1)
    /\ current_count = Cardinality(Window)
    /\ current_capacity = SumCapacity(Pick(stream, Window, 1))
    /\ Len(live_infos) <= limit
    /\ \A i \in 1..Len(live_infos) : live_infos[i].number <= to_number

\* a scan that left out a record for its block number with the limit not yet
\* reached, and went on
C18_Witness ==
    /\ ~fast_mode
    /\ limit = 2
    /\ Len(stream) = 3
    /\ stream[2].number > to_number
    /\ current_count = 1
    /\ pc = "ListScanned"

\* C19: without fast mode the terminator never returns stop, every record
\* the stream yields is counted, and the total returned is the count and the
\* capacity of the whole stream; with fast mode the terminator returns stop on
\* the first record outside the window, no record is read after it, and the
\* total returned is None.
C19_FastModeHalts ==
    /\ [](~fast_mode =>
            /\ ~halted
            /\ total_count = Len(stream)
            /\ total_capacity = SumCapacity(stream)
            /\ pc = "ListReturned" => total = <<Len(stream), SumCapacity(stream)>>)
    /\ [](fast_mode =>
            /\ \A i \in 1..(Len(stream) - 1) : i \in Window
            /\ halted <=> (stream # <<>> /\ Len(stream) \notin Window)
            /\ halted => pc # "ListScanning"
            /\ total = <<>>)
    /\ [][halted => stream' = stream]_vars

\* a fast scan halted on its second record, with the index able to yield
\* more, and returned
C19_Witness ==
    /\ fast_mode
    /\ halted
    /\ Len(stream) = 2
    /\ current_count = 1
    /\ pc = "ListReturned"
    /\ total = <<>>

\* C20: with a locked address its lock hash is the first of lock_hashes, the
\* primary's the second and the derived keys' come after; the lock hashes are
\* scanned in that order, and infos keeps the order of the scan, so the
\* eligible records of the locked address come before those of the others.
C20_LockedSourceFirst ==
    /\ [](lock_hashes # <<>> =>
            IF args.from_locked_address.present
                THEN /\ lock_hashes[1] = "locked"
                     /\ lock_hashes[2] = "primary"
                     /\ \A i \in 3..Len(lock_hashes) : lock_hashes[i] \in DOMAIN path_map
            ELSE /\ lock_hashes[1] = "primary"
                 /\ \A i \in 2..Len(lock_hashes) : lock_hashes[i] \in DOMAIN path_map)
    /\ [](\A i \in 1..Len(scanned) : scanned[i] # <<>> => i <= lock_i)
    /\ [][lock_i' >= lock_i]_vars
    /\ [][\A i \in 1..Len(scanned) : (i # lock_i => scanned'[i] = scanned[i])]_vars
    /\ [](infos = Prefix(EligibleScanned, Len(infos)))

\* a record of the locked address collected ahead of a record of the primary
\* that is older
C20_Witness ==
    /\ args.from_locked_address.present
    /\ lock_hashes = <<"locked", "primary", "chg0">>
    /\ scanned[1] = <<K500>>
    /\ scanned[2] = <<K600>>
    /\ infos = <<K500, K600>>
    /\ pc = "Balancing"

-----------------------------------------------------------------------------
(* Properties of the locked address's multisig configuration *)

ConfigurationMessage ==
    "from-locked-address is not created from the key or derived keys"

\* the lock hashes were built: the index was ready and the keys were derived
IdentitiesBuilt == args.from_locked_address.present /\ lock_hashes # <<>>

OwnKeys == {"primary"} \cup DOMAIN path_map

\* C21: with a locked address whose embedded hash is the multisig hash of
\* neither the primary key nor a derived key, transfer fails with the
\* configuration error, with no record read, nothing signed and nothing
\* broadcast; when it is that of one of these keys, the one configuration
\* registered is that key's, the primary's if the primary matches.
C21_LockedSourceConfiguration ==
    IdentitiesBuilt =>
        IF args.from_locked_address.key \notin OwnKeys
            THEN /\ pc = "Failed"
                 /\ error = ConfigurationMessage
                 /\ multisig_configs = {}
                 /\ lock_i = 0
                 /\ \A i \in 1..Len(scanned) : scanned[i] = <<>>
                 /\ inputs = <<>>
                 /\ broadcasts = 0
        ELSE /\ multisig_configs = {args.from_locked_address.key}
             /\ Cardinality(multisig_configs) = 1
             /\ error # ConfigurationMessage
             /\ args.from_locked_address.key = "primary" => multisig_configs = {"primary"}

\* a locked address made from the derived key, resolved
C21_Witness ==
    /\ args.from_locked_address.key = "chg0"
    /\ DOMAIN path_map = {"chg0"}
    /\ multisig_configs = {"chg0"}
    /\ pc = "SearchingFunds"

-----------------------------------------------------------------------------
(* Properties of the path the signing closure signs with *)

\* the last call signed its digest with the key store
SignedByKeyStore == Called /\ signed.kind = "Some" /\ message # ZeroDigest

\* C22: with the primary account among the candidates the key store signs
\* with the empty path, whatever derived keys are candidates too; without it,
\* it signs with the path path_map holds for one of the candidates.
C22_PrimaryBeforeDerived ==
    SignedByKeyStore =>
        IF account \in lock_args
            THEN signed.signature = <<account, EmptyPath, message>>
        ELSE \E k \in lock_args \cap DOMAIN path_map :
                signed.signature = <<account, path_map[k], message>>

\* a digest signed with the empty path for a candidate set holding the
\* primary account and a registered derived key
C22_Witness ==
    /\ SignedByKeyStore
    /\ account \in lock_args
    /\ "chg0" \in lock_args \cap DOMAIN path_map
    /\ signed.signature[2] = EmptyPath

-----------------------------------------------------------------------------
(* Properties of the transaction transfer builds *)

Assembled == outputs # <<>>

ChangeLock == IF args.derive_change_address THEN "chg0" ELSE "primary"

\* C23: the first output is the payment (its capacity, the destination's
\* lock, the data); there is a second output exactly when collected - payment
\* - fee is at least MIN_SECP_CELL_CAPACITY, it has that capacity, and it is
\* locked to the change address given, to the primary address when none is.
C23_PaymentThenChange ==
    Assembled =>
        /\ outputs[1] = PaymentOutput
        /\ Len(outputs) \in {1, 2}
        /\ Len(outputs) = 2 <=> Change >= min_cell_capacity
        /\ Len(outputs) = 2 => outputs[2] = Output(Change, ChangeLock, 0)

-----------------------------------------------------------------------------
(* Properties of the scan of get_capacity *)

\* C24: the terminator of get_capacity never returns stop and never has a
\* record collected; the scan of a lock hash ends only with its stream, the
\* lock hashes are scanned in order, the grand total is the capacity of every
\* record visited, and the immature and the deposit subtotals never exceed it.
C24_CapacityScansEverything ==
    /\ [](InCapacity =>
            /\ \A i \in 1..Len(stopped) : ~stopped[i]
            /\ live_infos = <<>>
            /\ total_capacity = SumCapacity(Visited)
            /\ immature_capacity <= total_capacity
            /\ dao_capacity <= total_capacity
            /\ \A i \in 1..Len(scanned) : scanned[i] # <<>> => i <= lock_i)
    /\ [][(pc = "CapacityScanning" /\ scanned' # scanned) =>
            (lock_i' = lock_i /\ pc' = pc /\ Len(Flatten(scanned')) = Len(Visited) + 1)]_vars
    /\ [][(pc = "CapacityScanning" /\ lock_i' # lock_i) => scanned' = scanned]_vars

\* two lock hashes scanned to the end, with an immature record and a deposit
\* among the records
C24_Witness ==
    /\ pc = "CapacityReturned"
    /\ Len(lock_hashes) = 2
    /\ scanned[1] # <<>>
    /\ Len(scanned[2]) = 2
    /\ 0 < immature_capacity
    /\ 0 < dao_capacity
    /\ immature_capacity < total_capacity

-----------------------------------------------------------------------------
(* Properties of the destination *)

ToAddressMessage == "Invalid to-address"

AcceptedDestinations ==
    { ToAddress("Type", SIGHASH_TYPE_HASH, 20),
      ToAddress("Type", MULTISIG_TYPE_HASH, 20),
      ToAddress("Type", MULTISIG_TYPE_HASH, 28) }

\* C25: transfer gets past its checks only with a destination of hash type
\* Type that is the sighash lock with 20 bytes of arguments or the multisig
\* lock with 20 or 28; with any other destination it fails with the
\* invalid-to-address error, no lock hash built and no record read.
C25_DestinationShapes ==
    (Parsed /\ ~args.from_locked_address.present) =>
        IF args.to_address \in AcceptedDestinations
            THEN error # ToAddressMessage
        ELSE /\ pc = "Failed"
             /\ error = ToAddressMessage
             /\ NothingBuilt
             /\ lock_i = 0

\* a payment to a multisig destination with 28 bytes of arguments, submitted
C25_Witness ==
    /\ args.to_address = ToAddress("Type", MULTISIG_TYPE_HASH, 28)
    /\ pc = "Submitted"
    /\ outputs # <<>>

-----------------------------------------------------------------------------
(* Properties of the transaction handed to send_transaction *)

HandedToBroadcast == broadcasts = 1

\* what the inputs hold above the outputs
EffectiveFee == SumCapacity(inputs) - SumCapacity(outputs)

\* C26: the transaction handed to send_transaction has inputs worth its
\* outputs plus an effective fee: tx_fee with a change output, tx_fee + change
\* without one; and the effective fee is at most ONE_CKB.
C26_BalancedBoundedFee ==
    HandedToBroadcast =>
        /\ inputs = infos
        /\ SumCapacity(inputs) = SumCapacity(outputs) + EffectiveFee
        /\ EffectiveFee = IF Len(outputs) = 2 THEN args.tx_fee ELSE args.tx_fee + Change
        /\ EffectiveFee >= 0
        /\ EffectiveFee <= ONE_CKB

-----------------------------------------------------------------------------
(* Properties of the u64 arithmetic of transfer *)

\* C27: no addition of transfer overflows (the target to_capacity + tx_fee,
\* the accumulation of from_capacity), and the rest is computed only with
\* from_capacity >= to_capacity + tx_fee, so that it is from_capacity -
\* to_capacity - tx_fee without a wrap.
C27_ArithmeticWithin64Bits ==
    /\ overflow_checks = "unset"
    /\ error # "attempt to add with overflow"
    /\ (pc \notin {"Matching", "Validating", "ResolvingIdentities", "SearchingFunds",
                   "Failed", "Panicked"} /\ lock_hashes # <<>>) =>
            Target(args) = PaymentPlusFee
    /\ Balanced =>
            /\ from_capacity >= PaymentPlusFee
            /\ rest_capacity = Change

====
